---- MODULE Spec2Model ----
(***************************************************************************)
(* Model of main.py: the daily news pipeline that selects the rows of the  *)
(* MSN/Google/Yahoo input sheets falling inside the acquisition window,    *)
(* appends the ones whose URL is new to the day's output sheet, recomputes *)
(* the duplicate-check key (column H) of every row and asks Gemini for the *)
(* sentiment/category labels (columns F and G).                            *)
(*                                                                         *)
(* Text is modelled as a sequence of one-character tokens; a blank cell is *)
(* the empty sequence.  Instants are seconds since the model's epoch (UTC);*)
(* the wall clock of Asia/Tokyo is the instant plus JSTOffset.  The sheet  *)
(* backend stores what is written and returns it unchanged.                *)
(***************************************************************************)
EXTENDS Integers, Sequences, FiniteSets, TLC

VARIABLES
    sheet,        \* the day's output worksheet: <<>> when absent, else header + data rows
    feeds,        \* the input spreadsheet: sheet name -> [present, rows (header excluded)]
    clock,        \* the system clock read by jst_now()
    has_jaconv,   \* jaconv was importable
    has_regex,    \* the regex module (re_u) was importable
    pc,           \* position of main()
    now,          \* main: now
    window,       \* main: <<start_jst, end_jst>>
    extracted,    \* main: extracted
    existing,     \* main: existing
    added,        \* main: added
    items,        \* classify_with_gemini: items
    next_start,   \* classify_with_gemini: start of the next batch (0-based)
    updates,      \* classify_with_gemini: updates
    staged,       \* payload of the last batch_update call of this run
    batch_log,    \* per processed batch: what the oracle answered (history)
    repaired,     \* rows whose H cell the last refresh changed (history)
    prev_run,     \* <<>>, or <<[window, feeds_same]>> of the last completed run (history)
    runs          \* completed runs

vars == <<sheet, feeds, clock, has_jaconv, has_regex, pc, now, window, extracted,
          existing, added, items, next_start, updates, staged, batch_log,
          repaired, prev_run, runs>>

-----------------------------------------------------------------------------
(* Bounds of the model *)

MaxRuns == 2
MaxFeedRows == 2
MaxResp == 1

-----------------------------------------------------------------------------
(* Program constants *)

INPUT_SHEETS == <<"MSN", "Google", "Yahoo">>

OUTPUT_HEADERS ==
    [A |-> <<"source">>, B |-> <<"title">>, C |-> <<"URL">>, D |-> <<"posted">>,
     E |-> <<"cited">>, F |-> <<"sentiment">>, G |-> <<"category">>,
     H |-> <<"dupkey">>, I |-> <<"paid">>]

BATCH == 40

JSTOffset == 32400
Day == 86400

Positive == <<"POJI", "TIBU">>
Negative == <<"NEGA", "TIBU">>
Neutral == <<"NYUTORARU">>

-----------------------------------------------------------------------------
(* Helpers on sequences *)

Range(s) == {s[i] : i \in 1..Len(s)}

Min(a, b) == IF a < b THEN a ELSE b

RECURSIVE Concat(_)
Concat(ss) == IF ss = <<>> THEN <<>> ELSE Head(ss) \o Concat(Tail(ss))

SeqsUpTo(S, n) == UNION {[1..k -> S] : k \in 0..n}

IsSpace(c) == c = "SP"

RECURSIVE LStrip(_)
LStrip(s) == IF s # <<>> /\ IsSpace(Head(s)) THEN LStrip(Tail(s)) ELSE s

RECURSIVE RStrip(_)
RStrip(s) ==
    IF s # <<>> /\ IsSpace(s[Len(s)]) THEN RStrip(SubSeq(s, 1, Len(s) - 1)) ELSE s

\* str.strip()
Strip(s) == RStrip(LStrip(s))

-----------------------------------------------------------------------------
(* Time *)

\* datetime.replace(hour, minute, second) on the Tokyo wall clock of instant t
ReplaceTime(t, h, m, s) ==
    LET wall == t + JSTOffset
    IN  (wall - (wall % Day)) + h * 3600 + m * 60 + s - JSTOffset

\* start taken one day before end, its time of day left as it is
calc_time_window_no_clamp(now_jst) ==
    LET end == ReplaceTime(now_jst, 14, 59, 59)
    IN  <<end - Day, end>>

calc_time_window(now_jst) ==
    LET end == ReplaceTime(now_jst, 14, 59, 59)
        start == ReplaceTime(end - Day, 15, 0, 0)
    IN  <<start, end>>

\* A raw timestamp cell: kind "serial" (a day-count number, secs = serial * Day,
\* counted from the epoch in UTC), "naive" (text without zone, wall clock),
\* "aware" (text with a UTC offset), "garbage" (unparseable), "blank".
RawTime(kind, wall, off) == [kind |-> kind, wall |-> wall, off |-> off]

\* Result: <<>> for None, else <<instant>>.
parse_sheet_datetime_to_jst(val) ==
    CASE val.kind = "blank" -> <<>>
      [] val.kind = "serial" -> <<val.wall>>
      [] val.kind = "naive" -> <<val.wall - JSTOffset>>
      [] val.kind = "aware" -> <<val.wall - val.off>>
      [] OTHER -> <<>>

\* "YY/M/D HH:MM" on the Tokyo wall clock: <<day, hour, minute>>
format_compact_jst(dt) ==
    LET wall == dt + JSTOffset
    IN  <<wall \div Day, (wall % Day) \div 3600, ((wall % Day) % 3600) \div 60>>

-----------------------------------------------------------------------------
(* Title normalisation.  Tokens: "A" ASCII letter, "FW_A" full-width letter, *)
(* "KA"/"HW_KA" full/half-width katakana, "CHOON"/"HW_CHOON" prolonged sound *)
(* mark (a letter, category Lm), "!" ASCII punctuation, "#" ASCII symbol,    *)
(* "SP" space.                                                               *)

NFKC(c) ==
    CASE c = "FW_A" -> "A"
      [] c = "HW_KA" -> "KA"
      [] c = "HW_CHOON" -> "CHOON"
      [] OTHER -> c

z2h(c) ==
    CASE c = "KA" -> "HW_KA"
      [] c = "CHOON" -> "HW_CHOON"
      [] c = "FW_A" -> "A"
      [] OTHER -> c

to_hankaku_kana_ascii_digit(s, jac) ==
    [i \in 1..Len(s) |-> IF jac THEN z2h(NFKC(s[i])) ELSE NFKC(s[i])]

\* [\p{P}\p{S}\p{Z}\p{Cc}]
InUnicodeStripClass(c) == c \in {"!", "#", "SP"}

\* the hand-written pattern of the fallback branch
InFallbackPattern(c) == c \in {"!", "SP", "CHOON", "HW_CHOON"}

normalize_title_for_dup(s, jac, rx) ==
    IF s = <<>> THEN <<>>
    ELSE LET h == to_hankaku_kana_ascii_digit(s, jac)
             Keep(c) == IF rx THEN ~InUnicodeStripClass(c) ELSE ~InFallbackPattern(c)
         IN  SelectSeq(h, Keep)

-----------------------------------------------------------------------------
(* The sheet backend *)

Cols == <<"A", "B", "C", "D", "E", "F", "G", "H", "I">>

ColIndex(c) == CHOOSE i \in 1..Len(Cols) : Cols[i] = c

BlankRow == [k \in Range(Cols) |-> <<>>]

\* Worksheet.get_all_values(): every row of the sheet, header first
get_all_values(ws) == ws

\* Worksheet.append_rows(rows)
append_rows(ws, rows) == ws \o rows

\* One entry of a batch_update payload: the cells first..last of one row.
CellRange(first, last, row, values) ==
    [first |-> first, last |-> last, row |-> row, values |-> values]

WriteRange(ws, u) ==
    LET grown == ws \o [i \in 1..(u.row - Len(ws)) |-> BlankRow]
        at == ColIndex(u.first)
        old == grown[u.row]
        new == [k \in Range(Cols) |->
                   IF ColIndex(k) >= at /\ ColIndex(k) < at + Len(u.values)
                   THEN u.values[ColIndex(k) - at + 1] ELSE old[k]]
    IN  [grown EXCEPT ![u.row] = new]

\* Worksheet.batch_update(updates): the ranges are written in order
RECURSIVE batch_update(_, _)
batch_update(ws, ups) ==
    IF ups = <<>> THEN ws ELSE batch_update(WriteRange(ws, Head(ups)), Tail(ups))

-----------------------------------------------------------------------------
(* The pipeline's functions *)

read_existing_urls(ws_out) ==
    LET values == get_all_values(ws_out)
    IN  {Strip(values[i].C) : i \in 2..Len(values)} \ {<<>>}

\* the upper end of the window compared with < instead of <=
CollectRowExclusiveEnd(sheet_name, row, start_jst, end_jst, jac, rx) ==
    LET title == Strip(row.title)
        url == Strip(row.url)
        posted_dt == parse_sheet_datetime_to_jst(row.posted)
    IN  IF title = <<>> \/ url = <<>> \/ row.posted.kind = "blank" THEN <<>>
        ELSE IF posted_dt = <<>> THEN <<>>
        ELSE IF start_jst <= posted_dt[1] /\ posted_dt[1] < end_jst
             THEN << [A |-> <<sheet_name>>, B |-> title, C |-> url,
                      D |-> format_compact_jst(posted_dt[1]),
                      E |-> Strip(row.attribution), F |-> <<>>, G |-> <<>>,
                      H |-> normalize_title_for_dup(title, jac, rx), I |-> <<>>] >>
             ELSE <<>>

\* One input row -> <<>> (skipped) or <<output row>>
CollectRow(sheet_name, row, start_jst, end_jst, jac, rx) ==
    LET title == Strip(row.title)
        url == Strip(row.url)
        posted_dt == parse_sheet_datetime_to_jst(row.posted)
    IN  IF title = <<>> \/ url = <<>> \/ row.posted.kind = "blank" THEN <<>>
        ELSE IF posted_dt = <<>> THEN <<>>
        ELSE IF start_jst <= posted_dt[1] /\ posted_dt[1] <= end_jst
             THEN << [A |-> <<sheet_name>>, B |-> title, C |-> url,
                      D |-> format_compact_jst(posted_dt[1]),
                      E |-> Strip(row.attribution), F |-> <<>>, G |-> <<>>,
                      H |-> normalize_title_for_dup(title, jac, rx), I |-> <<>>] >>
             ELSE <<>>

RECURSIVE CollectFeed(_, _, _, _, _, _)
CollectFeed(sheet_name, rows, start_jst, end_jst, jac, rx) ==
    IF rows = <<>> THEN <<>>
    ELSE CollectRow(sheet_name, Head(rows), start_jst, end_jst, jac, rx)
         \o CollectFeed(sheet_name, Tail(rows), start_jst, end_jst, jac, rx)

\* sh_in maps each input sheet name to [present, rows]; rows excludes the header
collect_rows_from_input(sh_in, start_jst, end_jst, jac, rx) ==
    Concat([i \in 1..Len(INPUT_SHEETS) |->
              IF sh_in[INPUT_SHEETS[i]].present
              THEN CollectFeed(INPUT_SHEETS[i], sh_in[INPUT_SHEETS[i]].rows,
                               start_jst, end_jst, jac, rx)
              ELSE <<>>])

\* the title column (index 1) compared with the known URLs instead of index 2
NewRowsByTitle(rows, existing_urls) ==
    LET IsNew(r) == r.B \notin existing_urls
    IN  SelectSeq(rows, IsNew)

\* the rows append_rows_dedup appends
NewRows(rows, existing_urls) ==
    LET IsNew(r) == r.C \notin existing_urls
    IN  SelectSeq(rows, IsNew)

\* only the rows whose key cell is blank get a write
RefreshUpdatesBlankOnly(values, jac, rx) ==
    IF Len(values) <= 1 THEN <<>>
    ELSE LET Idx == SelectSeq([i \in 1..Len(values) |-> i],
                              LAMBDA i : i > 1 /\ values[i].H = <<>>)
         IN  [k \in 1..Len(Idx) |->
                CellRange("H", "H", Idx[k],
                          <<normalize_title_for_dup(values[Idx[k]].B, jac, rx)>>)]

\* row_idx = i instead of i + 1: every key lands one row too high
RefreshUpdatesRowOff(values, jac, rx) ==
    IF Len(values) <= 1 THEN <<>>
    ELSE [k \in 1..(Len(values) - 1) |->
            CellRange("H", "H", k,
                      <<normalize_title_for_dup(values[k + 1].B, jac, rx)>>)]

\* the payload refresh_h_column_all stages
RefreshUpdates(values, jac, rx) ==
    IF Len(values) <= 1 THEN <<>>
    ELSE [k \in 1..(Len(values) - 1) |->
            CellRange("H", "H", k + 1,
                      <<normalize_title_for_dup(values[k + 1].B, jac, rx)>>)]

\* classify_with_gemini: the rows still to label, as <<row_idx, title>>
ClassifyItems(values) ==
    LET Idx == SelectSeq([i \in 1..Len(values) |-> i],
                         LAMBDA i : i > 1 /\ values[i].B # <<>>
                                    /\ (values[i].F = <<>> \/ values[i].G = <<>>))
    IN  [k \in 1..Len(Idx) |-> [row |-> Idx[k], title |-> values[Idx[k]].B]]

RepairSentiment(raw) ==
    LET sentiment == Strip(raw)
    IN  IF sentiment \in {Positive, Negative, Neutral} THEN sentiment
        ELSE IF "POJI" \in Range(sentiment) THEN Positive
        ELSE IF "NEGA" \in Range(sentiment) THEN Negative
        ELSE Neutral

\* One response object -> <<>> (row not an integer) or <<update>>
ObjectUpdate(obj) ==
    IF ~obj.has_row THEN <<>>
    ELSE << CellRange("F", "G", obj.row,
                      <<RepairSentiment(obj.sentiment), Strip(obj.category)>>) >>

RECURSIVE ResultUpdates(_)
ResultUpdates(result) ==
    IF result = <<>> THEN <<>>
    ELSE ObjectUpdate(Head(result)) \o ResultUpdates(Tail(result))

\* What one batch adds to updates.  resp.kind: "array" (the text holds a JSON
\* array), "exception" (generate_content raised), "notjson" (json.loads
\* raised), "scalar" (JSON that cannot be iterated: the loop raises before its
\* first turn), "object" (a JSON object: the loop runs over its keys, and
\* obj.get fails inside the inner try for each).
BatchUpdates(resp) ==
    IF resp.kind = "array" THEN ResultUpdates(resp.result) ELSE <<>>

\* the except clause also empties updates
AfterBatchDropOnFailure(ups, resp) ==
    IF resp.kind \in {"exception", "notjson", "scalar"} THEN <<>>
    ELSE ups \o BatchUpdates(resp)

\* updates after one turn of the batch loop; the except clause only prints
AfterBatch(ups, resp) == ups \o BatchUpdates(resp)

-----------------------------------------------------------------------------
(* Inputs the model draws from *)

Wall(d, h, m, s) == d * Day + h * 3600 + m * 60 + s

\* jst_now() of the runs on the day of the output sheet: after 15:00, when now
\* itself lies past the window
RunClock == Wall(2, 15, 30, 0) - JSTOffset

T1 == <<"FW_A", "!">>
T2 == <<"KA", "CHOON", "#">>
U1 == <<"u">>
U2 == <<"v">>

FeedRow(title, url, posted, attribution) ==
    [title |-> title, url |-> url, posted |-> posted, attribution |-> attribution]

\* Rows a feed producer may publish: the same URL under two spellings and two
\* titles, at both ends of the window, and a row one second past the window.
FeedRowPool ==
    { FeedRow(T1, <<"SP">> \o U1, RawTime("naive", Wall(1, 15, 0, 0), 0), <<"x">>),
      FeedRow(T2, U1, RawTime("serial", Wall(2, 14, 59, 59) - JSTOffset, 0), <<>>),
      FeedRow(T1 \o <<"SP">>, U2, RawTime("naive", Wall(2, 15, 0, 0), 0), <<"x">>) }

\* Data rows an output sheet may hold before the first run of the model: a fully
\* labelled row with a stale key, a partially labelled row without a key.
OldRow1 ==
    [A |-> <<"MSN">>, B |-> T1, C |-> U1, D |-> <<1, 15, 0>>, E |-> <<"x">>,
     F |-> Positive, G |-> <<"c">>, H |-> <<"A", "!">>, I |-> <<"p">>]

OldRow2 ==
    [A |-> <<"Yahoo">>, B |-> T2, C |-> U2, D |-> <<2, 9, 5>>, E |-> <<>>,
     F |-> Positive, G |-> <<>>, H |-> <<>>, I |-> <<>>]

InitSheets ==
    { <<>>, <<OUTPUT_HEADERS>>, <<OUTPUT_HEADERS, OldRow1>>,
      <<OUTPUT_HEADERS, OldRow2>>, <<OUTPUT_HEADERS, OldRow1, OldRow2>> }

\* What the oracle may put in the sentiment and category of one object.
LabelPool ==
    { [sentiment |-> <<>>, category |-> <<>>],
      [sentiment |-> <<"SP", "NEGA">>, category |-> <<"d">>] }

ResponseObject(has_row, row, sentiment, category) ==
    [has_row |-> has_row, row |-> row, sentiment |-> sentiment, category |-> category]

\* The oracle is untrusted: it may name the first and the last row of the batch
\* it was sent, the first row of the first batch, the header row, the data rows
\* that are in no batch, the row after the last one, or no row at all.  Row
\* numbers below 1 are left out: the backend rejects the whole write.
OracleObjects(batch, its, nrows) ==
    LET listed == {its[i].row : i \in 1..Len(its)}
        rows == {batch[1].row, batch[Len(batch)].row, its[1].row}
                \cup ((1..(nrows + 1)) \ listed)
    IN  {ResponseObject(TRUE, r, l.sentiment, l.category) : r \in rows, l \in LabelPool}
        \cup {ResponseObject(FALSE, 0, Negative, <<"d">>)}

OracleResponses(batch, its, nrows) ==
    {[kind |-> k, result |-> <<>>] : k \in {"exception", "notjson", "scalar", "object"}}
    \cup {[kind |-> "array", result |-> r] :
             r \in SeqsUpTo(OracleObjects(batch, its, nrows), MaxResp)}

NoFeeds == [n \in Range(INPUT_SHEETS) |-> [present |-> TRUE, rows |-> <<>>]]

FeedRowCount == Len(feeds.MSN.rows) + Len(feeds.Google.rows) + Len(feeds.Yahoo.rows)

-----------------------------------------------------------------------------
(* State machine *)

Locals == <<now, window, extracted, existing, added, items, next_start, updates,
            staged, batch_log, repaired>>

InitLocals ==
    /\ now = 0
    /\ window = <<0, 0>>
    /\ extracted = <<>>
    /\ existing = {}
    /\ added = 0
    /\ items = <<>>
    /\ next_start = 0
    /\ updates = <<>>
    /\ staged = <<>>
    /\ batch_log = <<>>
    /\ repaired = 0

Init ==
    /\ sheet \in InitSheets
    /\ feeds = NoFeeds
    /\ clock = RunClock
    /\ has_jaconv \in BOOLEAN
    /\ has_regex \in BOOLEAN
    /\ pc = "idle"
    /\ prev_run = <<>>
    /\ runs = 0
    /\ InitLocals

\* A feed producer adds a row to an input sheet (between runs).
FeedPublish ==
    /\ pc = "idle"
    /\ FeedRowCount < MaxFeedRows
    /\ \E n \in Range(INPUT_SHEETS), r \in FeedRowPool :
          /\ feeds[n].present
          /\ feeds' = [feeds EXCEPT ![n].rows = Append(@, r)]
    /\ prev_run' = [i \in 1..Len(prev_run) |-> [prev_run[i] EXCEPT !.feeds_same = FALSE]]
    /\ UNCHANGED <<sheet, clock, has_jaconv, has_regex, pc, runs, Locals>>

\* main: now = jst_now(); start_jst, end_jst = calc_time_window(now)
StartRun ==
    /\ pc = "idle"
    /\ runs < MaxRuns
    /\ now' = clock
    /\ window' = calc_time_window(clock)
    /\ pc' = "started"
    /\ UNCHANGED <<sheet, feeds, clock, has_jaconv, has_regex, extracted, existing,
                   added, items, next_start, updates, staged, batch_log, repaired,
                   prev_run, runs>>

\* main: extracted = collect_rows_from_input(sh_in, start_jst, end_jst)
Collect ==
    /\ pc = "started"
    /\ extracted' = collect_rows_from_input(feeds, window[1], window[2],
                                            has_jaconv, has_regex)
    /\ pc' = "collected"
    /\ UNCHANGED <<sheet, feeds, clock, has_jaconv, has_regex, now, window, existing,
                   added, items, next_start, updates, staged, batch_log, repaired,
                   prev_run, runs>>

\* ensure_output_worksheet
EnsureSheet ==
    /\ pc = "collected"
    /\ sheet' = IF sheet = <<>> THEN <<OUTPUT_HEADERS>> ELSE sheet
    /\ pc' = "ensured"
    /\ UNCHANGED <<feeds, clock, has_jaconv, has_regex, now, window, extracted,
                   existing, added, items, next_start, updates, staged, batch_log,
                   repaired, prev_run, runs>>

\* main: existing = read_existing_urls(ws_out)
ReadExisting ==
    /\ pc = "ensured"
    /\ existing' = read_existing_urls(sheet)
    /\ pc' = "read"
    /\ UNCHANGED <<sheet, feeds, clock, has_jaconv, has_regex, now, window, extracted,
                   added, items, next_start, updates, staged, batch_log, repaired,
                   prev_run, runs>>

append_rows_dedup ==
    /\ pc = "read"
    /\ LET new_rows == NewRows(extracted, existing)
       IN  /\ sheet' = IF new_rows = <<>> THEN sheet ELSE append_rows(sheet, new_rows)
           /\ added' = Len(new_rows)
    /\ pc' = "appended"
    /\ UNCHANGED <<feeds, clock, has_jaconv, has_regex, now, window, extracted,
                   existing, items, next_start, updates, staged, batch_log, repaired,
                   prev_run, runs>>

refresh_h_column_all ==
    /\ pc = "appended"
    /\ LET ups == RefreshUpdates(get_all_values(sheet), has_jaconv, has_regex)
       IN  /\ sheet' = batch_update(sheet, ups)
           /\ staged' = ups
           /\ repaired' = Cardinality({i \in 1..Len(ups) :
                                          sheet[ups[i].row].H # ups[i].values[1]})
    /\ pc' = "refreshed"
    /\ UNCHANGED <<feeds, clock, has_jaconv, has_regex, now, window, extracted,
                   existing, added, items, next_start, updates, batch_log, prev_run,
                   runs>>

\* classify_with_gemini without GEMINI_API_KEY or without the library
ClassifySkip ==
    /\ pc = "refreshed"
    /\ pc' = "done"
    /\ staged' = <<>>
    /\ UNCHANGED <<sheet, feeds, clock, has_jaconv, has_regex, now, window, extracted,
                   existing, added, items, next_start, updates, batch_log, repaired,
                   prev_run, runs>>

\* classify_with_gemini: read the sheet and pick the rows to label
ClassifyRead ==
    /\ pc = "refreshed"
    /\ LET values == get_all_values(sheet)
           its == IF Len(values) <= 1 THEN <<>> ELSE ClassifyItems(values)
       IN  /\ items' = its
           /\ pc' = IF its = <<>> THEN "done" ELSE "classifying"
    /\ next_start' = 0
    /\ updates' = <<>>
    /\ staged' = <<>>
    /\ batch_log' = <<>>
    /\ UNCHANGED <<sheet, feeds, clock, has_jaconv, has_regex, now, window, extracted,
                   existing, added, repaired, prev_run, runs>>

\* classify_with_gemini: one turn of the batch loop
ClassifyBatch ==
    /\ pc = "classifying"
    /\ next_start < Len(items)
    /\ LET batch == SubSeq(items, next_start + 1, Min(next_start + BATCH, Len(items)))
       IN  \E resp \in OracleResponses(batch, items, Len(sheet)) :
              /\ updates' = AfterBatch(updates, resp)
              /\ batch_log' = Append(batch_log, [batch |-> batch, resp |-> resp])
    /\ next_start' = next_start + BATCH
    /\ UNCHANGED <<sheet, feeds, clock, has_jaconv, has_regex, pc, now, window,
                   extracted, existing, added, items, staged, repaired, prev_run, runs>>

\* classify_with_gemini: the batch write after the loop
ClassifyWrite ==
    /\ pc = "classifying"
    /\ next_start >= Len(items)
    /\ sheet' = IF updates # <<>> THEN batch_update(sheet, updates) ELSE sheet
    /\ staged' = updates
    /\ pc' = "done"
    /\ UNCHANGED <<feeds, clock, has_jaconv, has_regex, now, window, extracted,
                   existing, added, items, next_start, updates, batch_log, repaired,
                   prev_run, runs>>

\* main returns; its locals are gone.
Finish ==
    /\ pc = "done"
    /\ pc' = "idle"
    /\ runs' = runs + 1
    /\ prev_run' = <<[window |-> window, feeds_same |-> TRUE]>>
    /\ now' = 0
    /\ window' = <<0, 0>>
    /\ extracted' = <<>>
    /\ existing' = {}
    /\ added' = 0
    /\ items' = <<>>
    /\ next_start' = 0
    /\ updates' = <<>>
    /\ staged' = <<>>
    /\ batch_log' = <<>>
    /\ repaired' = 0
    /\ UNCHANGED <<sheet, feeds, clock, has_jaconv, has_regex>>

Next ==
    \/ FeedPublish
    \/ StartRun
    \/ Collect
    \/ EnsureSheet
    \/ ReadExisting
    \/ append_rows_dedup
    \/ refresh_h_column_all
    \/ ClassifySkip
    \/ ClassifyRead
    \/ ClassifyBatch
    \/ ClassifyWrite
    \/ Finish

Spec == Init /\ [][Next]_vars

-----------------------------------------------------------------------------
(* One invocation of main, from every sheet and every content of the feeds.  *)

FeedConfigs ==
    {f \in [Range(INPUT_SHEETS) -> [present : BOOLEAN,
                                    rows : SeqsUpTo(FeedRowPool, MaxFeedRows)]] :
        /\ Len(f.MSN.rows) + Len(f.Google.rows) + Len(f.Yahoo.rows) <= MaxFeedRows
        /\ f.MSN.present /\ f.Yahoo.present
        /\ ~f.Google.present => f.Google.rows = <<>>}

InitOnce ==
    /\ sheet \in InitSheets
    /\ feeds \in FeedConfigs
    /\ clock = RunClock
    /\ has_jaconv \in BOOLEAN
    /\ has_regex \in BOOLEAN
    /\ pc = "idle"
    /\ prev_run = <<>>
    /\ runs = 0
    /\ InitLocals

NextOnce ==
    \/ StartRun
    \/ Collect
    \/ EnsureSheet
    \/ ReadExisting
    \/ append_rows_dedup
    \/ refresh_h_column_all
    \/ ClassifySkip
    \/ ClassifyRead
    \/ ClassifyBatch
    \/ ClassifyWrite

SpecOnce == InitOnce /\ [][NextOnce]_vars

-----------------------------------------------------------------------------
(* Successive runs in a deployment without GEMINI_API_KEY: classification is *)
(* skipped in every run.                                                     *)

NextNoKey ==
    \/ FeedPublish
    \/ StartRun
    \/ Collect
    \/ EnsureSheet
    \/ ReadExisting
    \/ append_rows_dedup
    \/ refresh_h_column_all
    \/ ClassifySkip
    \/ Finish

SpecNoKey == Init /\ [][NextNoKey]_vars

-----------------------------------------------------------------------------
(* The window and the row selection on their own: one input row, any time of *)
(* day on two days, timestamps around both ends of three windows.            *)

EdgeTimes == {<<14, 59, 58>>, <<14, 59, 59>>, <<15, 0, 0>>, <<15, 0, 1>>}

WindowClocks ==
    {Wall(d, t[1], t[2], t[3]) - JSTOffset :
        d \in {2, 3}, t \in {<<0, 0, 0>>, <<14, 59, 59>>, <<15, 0, 0>>, <<23, 59, 59>>}}

WindowInstants == {Wall(d, t[1], t[2], t[3]) - JSTOffset : d \in 1..3, t \in EdgeTimes}

\* the spellings of instant t in a cell, and two cells that do not parse
RawTimes ==
    UNION {{RawTime("naive", t + JSTOffset, 0), RawTime("serial", t, 0),
            RawTime("aware", t, 0)} : t \in WindowInstants}
    \cup {RawTime("garbage", 0, 0), RawTime("blank", 0, 0)}

InitWindow ==
    /\ sheet = <<>>
    /\ \E n \in {"MSN", "Yahoo"}, title \in {T1, <<"SP">>}, posted \in RawTimes :
          feeds = [NoFeeds EXCEPT ![n].rows = <<FeedRow(title, U1, posted, <<>>)>>,
                                  !["Google"].present = FALSE]
    /\ clock \in WindowClocks
    /\ has_jaconv \in BOOLEAN
    /\ has_regex = TRUE
    /\ pc = "idle"
    /\ prev_run = <<>>
    /\ runs = 0
    /\ InitLocals

NextWindow ==
    \/ StartRun
    \/ Collect

SpecWindow == InitWindow /\ [][NextWindow]_vars

-----------------------------------------------------------------------------
(* One run over a sheet with more rows to label than one batch holds.        *)

BigRow(i) ==
    [A |-> <<"MSN">>, B |-> T1, C |-> <<"u", ToString(i)>>, D |-> <<1, 15, 0>>,
     E |-> <<>>, F |-> <<>>, G |-> <<>>, H |-> <<"A">>, I |-> <<>>]

\* header, one labelled row, then n rows without labels
BigSheet(n) == <<OUTPUT_HEADERS, OldRow1>> \o [i \in 1..n |-> BigRow(i)]

InitBatch ==
    /\ sheet \in {BigSheet(BATCH + 1), BigSheet(BATCH + 2)}
    /\ feeds = NoFeeds
    /\ clock = RunClock
    /\ has_jaconv \in BOOLEAN
    /\ has_regex \in BOOLEAN
    /\ pc = "idle"
    /\ prev_run = <<>>
    /\ runs = 0
    /\ InitLocals

NextBatch ==
    \/ StartRun
    \/ Collect
    \/ EnsureSheet
    \/ ReadExisting
    \/ append_rows_dedup
    \/ refresh_h_column_all
    \/ ClassifySkip
    \/ ClassifyRead
    \/ ClassifyBatch
    \/ ClassifyWrite

SpecBatch == InitBatch /\ [][NextBatch]_vars

-----------------------------------------------------------------------------
(* Properties *)

DataRows(ws) == 2..Len(ws)

\* the objects of a logged response that name a row
RowObjects(entry) ==
    IF entry.resp.kind = "array"
    THEN SelectSeq(entry.resp.result, LAMBDA o : o.has_row)
    ELSE <<>>

RECURSIVE RowObjectCount(_)
RowObjectCount(log) ==
    IF log = <<>> THEN 0 ELSE Len(RowObjects(Head(log))) + RowObjectCount(Tail(log))

\* number of turns of the batch loop
BatchCount == (Len(items) + BATCH - 1) \div BATCH

\* the single input row of SpecWindow
TheRow ==
    IF feeds.MSN.rows # <<>> THEN feeds.MSN.rows[1] ELSE feeds.Yahoo.rows[1]

\* calendar date of instant t in Tokyo
DateOf(t) == (t + JSTOffset) \div Day

\* C1: no two data rows of the output sheet carry the same URL (column C).
UrlsUnique ==
    \A i \in DataRows(sheet), j \in DataRows(sheet) :
        i # j => sheet[i].C # sheet[j].C

\* C2: the batch write of classify_with_gemini leaves F and G of every data row
\* that had both cells filled when the sheet was read as they were.
LabelledRowsKept ==
    [][(pc = "classifying" /\ pc' = "done") =>
          \A i \in DataRows(sheet) :
              (sheet[i].F # <<>> /\ sheet[i].G # <<>>) =>
                  (sheet'[i].F = sheet[i].F /\ sheet'[i].G = sheet[i].G)]_vars

\* C3: a run that follows a completed run with the same window and the same
\* feeds appends no row.
ReappendAddsNothing ==
    (pc = "appended" /\ prev_run # <<>> /\ prev_run[1].feeds_same
     /\ prev_run[1].window = window) => added = 0

ReappendHappened ==
    /\ pc = "appended"
    /\ prev_run # <<>> /\ prev_run[1].feeds_same /\ prev_run[1].window = window
    /\ extracted # <<>>
    /\ Len(sheet) > Len(extracted)
    /\ added = 0

\* C4: when main completes, the key cell (H) of every data row equals
\* normalize_title_for_dup of its title cell (B).
KeysMatchTitles ==
    pc = "done" =>
        \A i \in DataRows(sheet) :
            sheet[i].H = normalize_title_for_dup(sheet[i].B, has_jaconv, has_regex)

\* a run that repaired old keys, appended rows and wrote labels has completed
KeysRepairedRun ==
    /\ pc = "done"
    /\ repaired > 0
    /\ existing # {}
    /\ added > 0
    /\ staged # <<>>

\* C5: once the F cell of a data row is filled its value never changes, and
\* likewise for its G cell.
LabelsWriteOnce ==
    [][\A i \in DataRows(sheet) :
          /\ sheet[i].F # <<>> => sheet'[i].F = sheet[i].F
          /\ sheet[i].G # <<>> => sheet'[i].G = sheet[i].G]_vars

\* C6: every batch of the run is processed; a batch whose call or parse failed
\* adds nothing to the final write, and every update of every well-formed
\* response is in it.
PartialBatchResilience ==
    (pc = "done" /\ items # <<>>) =>
        /\ Len(batch_log) = BatchCount
        /\ Len(staged) = RowObjectCount(batch_log)
        /\ \A k \in 1..Len(batch_log) :
              \A n \in 1..Len(RowObjects(batch_log[k])) :
                  LET o == RowObjects(batch_log[k])[n]
                  IN  \E m \in 1..Len(staged) :
                         /\ staged[m].first = "F" /\ staged[m].last = "G"
                         /\ staged[m].row = o.row
                         /\ staged[m].values = <<RepairSentiment(o.sentiment),
                                                  Strip(o.category)>>

\* two batches, the second failed, the first answered with a row
OneBatchFailed ==
    /\ pc = "done"
    /\ Len(batch_log) = 2
    /\ Len(batch_log[1].batch) = BATCH
    /\ Len(RowObjects(batch_log[1])) > 0
    /\ batch_log[2].resp.kind \in {"exception", "notjson"}
    /\ staged # <<>>

\* C7: with one input row whose title and url are not blank and whose
\* timestamp parses to t, a candidate is emitted exactly when
\* (D-1) 15:00:00 <= t <= D 14:59:59, D the Tokyo date of now.
WindowSelection ==
    (pc = "collected" /\ Strip(TheRow.title) # <<>> /\ Strip(TheRow.url) # <<>>
     /\ parse_sheet_datetime_to_jst(TheRow.posted) # <<>>) =>
        LET t == parse_sheet_datetime_to_jst(TheRow.posted)[1]
            lo == Wall(DateOf(now) - 1, 15, 0, 0) - JSTOffset
            hi == Wall(DateOf(now), 14, 59, 59) - JSTOffset
        IN  (extracted # <<>>) <=> (lo <= t /\ t <= hi)

\* a row stamped exactly at the end of the window was emitted by a run started
\* after 15:00
EndOfWindowEmitted ==
    /\ pc = "collected"
    /\ extracted # <<>>
    /\ parse_sheet_datetime_to_jst(TheRow.posted)
          = <<Wall(DateOf(now), 14, 59, 59) - JSTOffset>>
    /\ now > Wall(DateOf(now), 15, 0, 0) - JSTOffset

\* C8 as stated: start <= end and end - start is 86400 seconds.
WindowIsOneDay ==
    pc = "started" => (window[1] <= window[2] /\ window[2] - window[1] = Day)

\* C8 as amended: start <= end and end - start is 86399 seconds (23:59:59).
WindowIsOneDayLessOneSecond ==
    pc = "started" => (window[1] <= window[2] /\ window[2] - window[1] = Day - 1)

WindowComputedAfter15 ==
    /\ pc = "started"
    /\ now > window[2]
    /\ window[2] - window[1] = Day - 1

\* C9: the classification write holds an update for a row only if some response
\* object for that row had a non-empty sentiment or a non-empty category.
OnlyLabelledObjectsWritten ==
    (pc = "done" /\ items # <<>>) =>
        \A m \in 1..Len(staged) :
            \E k \in 1..Len(batch_log) :
                \E n \in 1..Len(RowObjects(batch_log[k])) :
                    LET o == RowObjects(batch_log[k])[n]
                    IN  /\ o.row = staged[m].row
                        /\ (o.sentiment # <<>> \/ o.category # <<>>)

\* C10: refresh_h_column_all stages one write per data row, to that row's H
\* cell; rows, their order, the header and columns A-G and I stay as they were.
RefreshFrame ==
    [][(pc = "appended" /\ pc' = "refreshed") =>
          /\ Len(sheet') = Len(sheet)
          /\ Len(sheet) > 0 => sheet'[1] = sheet[1]
          /\ \A i \in DataRows(sheet) :
                \A c \in Range(Cols) \ {"H"} : sheet'[i][c] = sheet[i][c]
          /\ Len(staged') = Cardinality(DataRows(sheet))
          /\ \A k \in 1..Len(staged') :
                /\ staged'[k].first = "H" /\ staged'[k].last = "H"
                /\ staged'[k].row = k + 1
                /\ Len(staged'[k].values) = 1]_vars

\* a refresh over old and new rows that changed a stale key
RefreshRepaired ==
    /\ pc = "refreshed"
    /\ Len(sheet) >= 3
    /\ added > 0
    /\ repaired > 0
    /\ Len(staged) = Len(sheet) - 1

====
